---------------------------- MODULE Spec2Model ----------------------------
(***************************************************************************)
(* A model of src/high.py: the question generator's prompt construction    *)
(* (detect_options, build_question_format, build_prompt), its generation   *)
(* gateway (call_llm), its document assembly (save_to_docx) and the        *)
(* interactive driver (main).                                              *)
(*                                                                         *)
(* Text is a sequence of characters, each character a one-character        *)
(* string.  A longer string stands for a run of characters that nothing in *)
(* the program looks inside: a line of the literal blocks of               *)
(* build_question_format and build_prompt (it begins and ends with a       *)
(* non-blank character), the heading of the document, the text of an       *)
(* exception, an undecodable byte and the character that replaces it.      *)
(***************************************************************************)
EXTENDS Integers, Sequences, FiniteSets, TLC

VARIABLES
    pc,               \* where the run stands
    base_question,    \* SpecPure: the base question handed to the pure functions
    option_count,     \* SpecPure: what detect_options returned, -1 before
    question_format,  \* SpecPure: what build_question_format returned
    lines,            \* main: the lines of the base question being typed
    line,             \* main: the line read last
    base_questions,   \* main: the base questions recorded
    results,          \* main: the outputs collected
    calls,            \* the call_llm invocations so far: item, process, outcome
    world,            \* the network and filesystem save_to_docx met
    doc,              \* the blocks of the document
    saved             \* doc.save(path) has run

vars == <<pc, base_question, option_count, question_format,
          lines, line, base_questions, results, calls, world, doc, saved>>

pure_vars == <<base_question, option_count, question_format>>

main_vars == <<lines, line, base_questions, results, calls, world, doc, saved>>

-----------------------------------------------------------------------------
(* Bounds of the model. *)

\* longest base question typed character by character in SpecPure
MaxLen == 6

\* largest option count handed directly to build_question_format
MaxOptionCount == 10

-----------------------------------------------------------------------------
(* Characters and the str methods the program uses. *)

UpperLetters == <<"A", "B", "C", "D", "E", "F", "G", "H", "I", "J", "K", "L", "M",
                  "N", "O", "P", "Q", "R", "S", "T", "U", "V", "W", "X", "Y", "Z">>

LowerLetters == <<"a", "b", "c", "d", "e", "f", "g", "h", "i", "j", "k", "l", "m",
                  "n", "o", "p", "q", "r", "s", "t", "u", "v", "w", "x", "y", "z">>

\* chr(code) for the codes of the upper-case letters
Chr(code) == UpperLetters[code - 64]

\* str.lower() on one character
LowerChar(c) ==
    IF \E k \in 1..26 : UpperLetters[k] = c
    THEN LowerLetters[CHOOSE k \in 1..26 : UpperLetters[k] = c]
    ELSE c

\* str.lower()
Lower(s) == [k \in 1..Len(s) |-> LowerChar(s[k])]

\* the characters str.strip() removes
Whitespace == {" ", "\t", "\n", "\r", "\f"}

RECURSIVE LStrip(_)
LStrip(s) ==
    IF s # <<>> /\ Head(s) \in Whitespace THEN LStrip(Tail(s)) ELSE s

RECURSIVE RStrip(_)
RStrip(s) ==
    IF s # <<>> /\ s[Len(s)] \in Whitespace
    THEN RStrip(SubSeq(s, 1, Len(s) - 1))
    ELSE s

\* str.strip()
Strip(s) == RStrip(LStrip(s))

\* str.startswith(p)
StartsWith(s, p) == Len(s) >= Len(p) /\ SubSeq(s, 1, Len(p)) = p

\* str.endswith(p)
EndsWith(s, p) ==
    Len(s) >= Len(p) /\ SubSeq(s, Len(s) - Len(p) + 1, Len(s)) = p

\* sep.join(parts)
RECURSIVE Join(_, _)
Join(parts, sep) ==
    IF parts = <<>> THEN <<>>
    ELSE IF Len(parts) = 1 THEN parts[1]
    ELSE parts[1] \o sep \o Join(Tail(parts), sep)

\* str.split("\n"): the pieces between line feeds, empty ones kept
\* the first index from k on where s holds a character of set, 0 when none
RECURSIVE Find(_, _, _)
Find(s, set, k) ==
    IF k > Len(s) THEN 0
    ELSE IF s[k] \in set THEN k
    ELSE Find(s, set, k + 1)

RECURSIVE SplitNL(_)
SplitNL(s) ==
    LET k == Find(s, {"\n"}, 1)
    IN  IF k = 0 THEN <<s>>
        ELSE <<SubSeq(s, 1, k - 1)>> \o SplitNL(SubSeq(s, k + 1, Len(s)))

-----------------------------------------------------------------------------
(* textwrap.dedent *)

Blank == {" ", "\t"}

\* the leading run of blanks of a line
RECURSIVE LeadingBlanks(_)
LeadingBlanks(l) ==
    IF l # <<>> /\ Head(l) \in Blank
    THEN <<Head(l)>> \o LeadingBlanks(Tail(l))
    ELSE <<>>

RECURSIVE CommonPrefix(_, _)
CommonPrefix(a, b) ==
    IF a # <<>> /\ b # <<>> /\ Head(a) = Head(b)
    THEN <<Head(a)>> \o CommonPrefix(Tail(a), Tail(b))
    ELSE <<>>

\* the margin dedent removes: the common leading blanks of the lines that hold
\* a non-blank character; none is such a line's own blanks taken whole
RECURSIVE Margin(_, _, _)
Margin(ls, margin, none) ==
    IF ls = <<>> THEN margin
    ELSE LET l == Head(ls)
             indent == LeadingBlanks(l)
         IN  IF Len(indent) = Len(l) THEN Margin(Tail(ls), margin, none)
             ELSE IF none THEN Margin(Tail(ls), indent, FALSE)
             ELSE Margin(Tail(ls), CommonPrefix(margin, indent), FALSE)

dedent(text) ==
    LET raw == SplitNL(text)
        \* lines of blanks only are normalised to empty lines
        norm == [k \in 1..Len(raw) |->
                    IF \A h \in 1..Len(raw[k]) : raw[k][h] \in Blank
                    THEN <<>> ELSE raw[k]]
        margin == Margin(norm, <<>>, TRUE)
        cut == [k \in 1..Len(norm) |->
                    IF margin # <<>> /\ StartsWith(norm[k], margin)
                    THEN SubSeq(norm[k], Len(margin) + 1, Len(norm[k]))
                    ELSE norm[k]]
    IN  Join(cut, <<"\n">>)

-----------------------------------------------------------------------------
(* The curriculum and the option detector. *)

CURRICULUM ==
    << <<"Quantitative Math", "Problem Solving", "Numbers and Operations">>,
       <<"Quantitative Math", "Problem Solving", "Algebra">>,
       <<"Quantitative Math", "Geometry and Measurement", "Area & Volume">>,
       <<"Quantitative Math", "Numbers and Operations",
         "Fractions, Decimals, & Percents">>,
       <<"Quantitative Math", "Data Analysis & Probability",
         "Probability (Basic, Compound Events)">>,
       <<"Quantitative Math", "Reasoning", "Word Problems">> >>

\* the character class [A-Ea-e]
OptionLetters == {"A", "B", "C", "D", "E", "a", "b", "c", "d", "e"}

\* re.findall(r"\([A-Ea-e]\)", s): the matches from left to right, none
\* overlapping another
RECURSIVE FindAllOptions(_)
FindAllOptions(s) ==
    IF Len(s) < 3 THEN <<>>
    ELSE IF s[1] = "(" /\ s[2] \in OptionLetters /\ s[3] = ")"
    THEN <<SubSeq(s, 1, 3)>> \o FindAllOptions(SubSeq(s, 4, Len(s)))
    ELSE FindAllOptions(Tail(s))

detect_options(bq) ==
    LET matches == FindAllOptions(bq)
    IN  Cardinality({matches[k] : k \in 1..Len(matches)})

-----------------------------------------------------------------------------
(* build_question_format and build_prompt *)

NL == <<"\n">>

\* the indentation of the literal block inside build_question_format
Indent == <<" ", " ", " ", " ">>

\* f"@option <Option {chr(65+i)}>"
LetteredTag(i) == <<"@option <Option", " ", Chr(65 + i), ">">>

CorrectTag == <<"@@option <Correct Option>">>

\* OptionTags with the last index compared against option_count, which no
\* index reaches
RECURSIVE OptionTagsNoLast(_, _)
OptionTagsNoLast(n, i) ==
    IF i >= n THEN <<>>
    ELSE <<IF i = n THEN CorrectTag ELSE LetteredTag(i)>>
         \o OptionTagsNoLast(n, i + 1)

\* the loop over range(option_count), from index i on
RECURSIVE OptionTags(_, _)
OptionTags(n, i) ==
    IF i >= n THEN <<>>
    ELSE <<IF i = n - 1 THEN CorrectTag ELSE LetteredTag(i)>>
         \o OptionTags(n, i + 1)

\* f"- {s} > {u} > {t}" for one entry of CURRICULUM
CurriculumLine(e) == <<"-", " ", e[1], " ", ">", " ", e[2], " ", ">", " ", e[3]>>

\* the f-string of build_question_format before textwrap.dedent
FormatLiteral(options_block) ==
    NL
    \o Indent \o <<"@title <Assessment title, meaningful>">> \o NL
    \o Indent \o <<"@description <Short assessment description>">> \o NL
    \o NL
    \o Indent \o <<"// Use this block for each question when adding Multiple Choice Questions (MCQ)">> \o NL
    \o Indent \o <<"@question <Question text here>">> \o NL
    \o Indent \o <<"@instruction <Instruction here>">> \o NL
    \o Indent \o <<"@difficulty <easy|moderate|hard>">> \o NL
    \o Indent \o <<"@Order <Question number>">> \o NL
    \o Indent \o options_block \o NL
    \o Indent \o <<"@explanation <Explanation for correct answer>">> \o NL
    \o Indent \o <<"@subject <Choose exactly from curriculum list>">> \o NL
    \o Indent \o <<"@unit <Choose exactly from curriculum list>">> \o NL
    \o Indent \o <<"@topic <Choose exactly from curriculum list>">> \o NL
    \o Indent \o <<"@plusmarks 1">> \o NL
    \o NL
    \o Indent \o <<"The subject, unit, and topic must come from this curriculum list:">> \o NL
    \o Indent \o Join([k \in 1..Len(CURRICULUM) |-> CurriculumLine(CURRICULUM[k])], NL) \o NL
    \o Indent

build_question_format(n) ==
    LET option_tags == OptionTags(n, 0)
        options_block == Join(option_tags, NL)
    IN  dedent(FormatLiteral(options_block))

\* the f-string of build_prompt (its em dash written as a hyphen)
PromptLiteral(bq, format) ==
    NL
    \o <<"You are an expert educational content creator.">> \o NL
    \o <<"Generate ONE new question that is exactly the same type as the Base Question.">> \o NL
    \o <<"Do not change the mathematical concept - only change surface details like names, objects, and numbers.">> \o NL
    \o <<"Keep LaTeX math notation unchanged.">> \o NL
    \o <<"Preserve any image references in ![](url) format.">> \o NL
    \o NL
    \o <<"Base Question:">> \o NL
    \o bq \o NL
    \o NL
    \o <<"Follow this exact output format (tags must be on separate lines):">> \o NL
    \o format \o NL
    \o NL
    \o <<"Ensure:">> \o NL
    \o <<"- Same math skill tested.">> \o NL
    \o <<"- Correct answer logic matches the base question's method.">> \o NL
    \o <<"- Subject, unit, and topic tags match EXACTLY from the curriculum list.">> \o NL
    \o <<"- @subject, @unit, @topic are each on their own line.">> \o NL

\* build_prompt with the base question stripped before it is embedded
build_prompt_stripped(bq, order_num) ==
    PromptLiteral(Strip(bq), build_question_format(detect_options(bq)))

build_prompt(bq, order_num) ==
    LET count == detect_options(bq)
        format == build_question_format(count)
    IN  PromptLiteral(bq, format)

-----------------------------------------------------------------------------
(* call_llm: the generation gateway.  The external process is a record    *)
(* found (the ollama executable could be started), returncode and stdout; *)
(* in stdout "<ff>" is a byte that is no valid UTF-8.                     *)

InvalidByte == "<ff>"

ReplacementChar == "<U+FFFD>"

\* bytes.decode("utf-8", errors="replace")
Decode(bytes) ==
    [k \in 1..Len(bytes) |->
        IF bytes[k] = InvalidByte THEN ReplacementChar ELSE bytes[k]]

Placeholder ==
    <<"@title Placeholder", "\n",
      "@description This is a placeholder question", "\n", ".", ".", ".">>

\* what call_llm does: raise, or return value
call_llm(p, use_local_model, proc) ==
    IF use_local_model
    THEN IF ~proc.found
         \* subprocess.run raises FileNotFoundError
         THEN [raised |-> TRUE, value |-> <<>>]
         \* no check=True: the return code is never read
         ELSE [raised |-> FALSE, value |-> Strip(Decode(proc.stdout))]
    ELSE [raised |-> FALSE, value |-> Placeholder]

-----------------------------------------------------------------------------
(* save_to_docx: the document as its sequence of blocks. *)

\* str(i) for i >= 0
RECURSIVE Str(_)
Str(i) ==
    LET digit == <<"0", "1", "2", "3", "4", "5", "6", "7", "8", "9">>[(i % 10) + 1]
    IN  IF i < 10 THEN <<digit>> ELSE Str(i \div 10) \o <<digit>>

\* the boundaries str.splitlines() splits at, among the characters of the model
LineBreaks == {"\n", "\r", "\f"}

\* str.splitlines(): no empty last line, "\r\n" one boundary
RECURSIVE SplitLines(_)
SplitLines(s) ==
    LET k == Find(s, LineBreaks, 1)
        next == IF s[k] = "\r" /\ k < Len(s) /\ s[k + 1] = "\n"
                THEN k + 2 ELSE k + 1
    IN  IF s = <<>> THEN <<>>
        ELSE IF k = 0 THEN <<s>>
        ELSE <<SubSeq(s, 1, k - 1)>> \o SplitLines(SubSeq(s, next, Len(s)))

Paragraph(text) == [kind |-> "paragraph", text |-> text]

\* doc.add_picture(..., width=Inches(4)); text is where the image came from
Picture(ref) == [kind |-> "picture", text |-> ref]

Heading == [kind |-> "heading", text |-> <<"Generated Questions">>]

\* f"--- Question {i} ---"
SectionHeader(i) ==
    <<"-", "-", "-", " ", "Q", "u", "e", "s", "t", "i", "o", "n", " ">>
    \o Str(i) \o <<" ", "-", "-", "-">>

ImageOpen == <<"!", "[", "]", "(">>

ImageClose == <<")">>

\* line.strip().startswith("![](") and line.strip().endswith(")")
IsImageLine(l) ==
    StartsWith(Strip(l), ImageOpen) /\ EndsWith(Strip(l), ImageClose)

\* line.strip()[4:-1].strip()
ImgUrl(l) ==
    LET t == Strip(l)
    IN  Strip(SubSeq(t, 5, Len(t) - 1))

Http == <<"h", "t", "t", "p">>

\* a URL requests can fetch: one with the scheme http:// or https://
HasHttpScheme(url) ==
    \/ StartsWith(url, Http \o <<":", "/", "/">>)
    \/ StartsWith(url, Http \o <<"s", ":", "/", "/">>)

\* f"[Failed to load image: {img_url}] Error: {e}"
FailedToLoad(img_url, e) ==
    <<"[", "F", "a", "i", "l", "e", "d", " ", "t", "o", " ", "l", "o", "a", "d", " ",
      "i", "m", "a", "g", "e", ":", " ">> \o img_url
    \o <<"]", " ", "E", "r", "r", "o", "r", ":", " ", e>>

\* f"[Image not found: {img_url}]"
ImageNotFound(img_url) ==
    <<"[", "I", "m", "a", "g", "e", " ", "n", "o", "t", " ", "f", "o", "u", "n", "d",
      ":", " ">> \o img_url \o <<"]">>

\* the paths of the filesystem that can exist: w.fs says what is at them
KnownPaths == { <<"p", ".", "p", "n", "g">> }

\* Path(img_url).exists()
Exists(img_url, w) == img_url \in KnownPaths /\ w.fs # "missing"

\* requests.get and raise_for_status: the exception raised, or "ok".  requests refuses a URL without a scheme it knows.
FetchRemote(img_url, w) ==
    IF ~HasHttpScheme(img_url) THEN "<MissingSchema>"
    ELSE CASE w.net = "transport" -> "<ConnectionError>"
           [] w.net = "status" -> "<HTTPError>"
           [] OTHER -> "ok"

\* doc.add_picture(str(img_path)) on an existing path
AddLocalPicture(img_url, w) ==
    IF w.fs = "unreadable" THEN "<UnrecognizedImageError>" ELSE "ok"

\* the body of the loop over the lines of one output: the block the line adds
LineBlock(l, w) ==
    IF IsImageLine(l)
    THEN LET img_url == ImgUrl(l)
         IN  IF StartsWith(img_url, Http)
             THEN LET e == FetchRemote(img_url, w)
                  IN  IF e = "ok" THEN Picture(img_url)
                      ELSE Paragraph(FailedToLoad(img_url, e))
             ELSE IF Exists(img_url, w)
                  THEN LET e == AddLocalPicture(img_url, w)
                       IN  IF e = "ok" THEN Picture(img_url)
                           ELSE Paragraph(FailedToLoad(img_url, e))
                  ELSE Paragraph(ImageNotFound(img_url))
    ELSE Paragraph(l)

\* SectionBlocks without the except clause: the first image that cannot be
\* resolved ends the output's blocks
SectionBlocksNoExcept(i, out, w) ==
    LET ls == SplitLines(out)
        bad == { k \in 1..Len(ls) :
                   /\ IsImageLine(ls[k])
                   /\ LineBlock(ls[k], w).kind = "paragraph" }
        stop == IF bad = {} THEN Len(ls)
                ELSE (CHOOSE k \in bad : \A h \in bad : k <= h) - 1
    IN  <<Paragraph(SectionHeader(i))>>
        \o [k \in 1..stop |-> LineBlock(ls[k], w)]

\* the blocks of one output: its header and one block for each line
SectionBlocks(i, out, w) ==
    LET ls == SplitLines(out)
    IN  <<Paragraph(SectionHeader(i))>>
        \o [k \in 1..Len(ls) |-> LineBlock(ls[k], w)]

\* the loop over enumerate(outputs, 1), from output i on
RECURSIVE Sections(_, _, _)
Sections(outputs, i, w) ==
    IF i > Len(outputs) THEN <<>>
    ELSE SectionBlocks(i, outputs[i], w) \o Sections(outputs, i + 1, w)

save_to_docx(outputs, w) == <<Heading>> \o Sections(outputs, 1, w)

-----------------------------------------------------------------------------
(* SpecPure: detect_options and build_question_format applied to bounded  *)
(* inputs.  A base question is typed character by character and handed to *)
(* detect_options; build_question_format is called with each option count *)
(* up to MaxOptionCount.                                                  *)

\* the characters a base question is typed from in SpecPure
Alphabet == {"(", ")", "a", "A", "b"}

NoWorld == [net |-> "none", fs |-> "none"]

MainIdle ==
    /\ lines = <<>>
    /\ line = <<>>
    /\ base_questions = <<>>
    /\ results = <<>>
    /\ calls = <<>>
    /\ world = NoWorld
    /\ doc = <<>>
    /\ saved = FALSE

InitPure ==
    /\ pc = "typing"
    /\ base_question = <<>>
    /\ option_count = -1
    /\ question_format = <<>>
    /\ MainIdle

TypeChar ==
    /\ pc = "typing"
    /\ Len(base_question) < MaxLen
    /\ \E c \in Alphabet : base_question' = Append(base_question, c)
    /\ UNCHANGED <<pc, option_count, question_format, main_vars>>

CallDetectOptions ==
    /\ pc = "typing"
    /\ option_count' = detect_options(base_question)
    /\ pc' = "detected"
    /\ UNCHANGED <<base_question, question_format, main_vars>>

CallBuildQuestionFormat ==
    /\ pc = "typing"
    /\ base_question = <<>>
    /\ \E n \in 0..MaxOptionCount :
          /\ option_count' = n
          /\ question_format' = build_question_format(n)
    /\ pc' = "format"
    /\ UNCHANGED <<base_question, main_vars>>

NextPure ==
    \/ TypeChar
    \/ CallDetectOptions
    \/ CallBuildQuestionFormat

SpecPure == InitPure /\ [][NextPure]_vars

-----------------------------------------------------------------------------
(* Spec: a run of main.  Each action is one blocking step of main with    *)
(* everything main does up to the next one: init_app, one input() of the  *)
(* question loop, the input() of the image prompt, one round of the       *)
(* generation loop, save_to_docx.                                         *)

\* most base questions typed in one run
MaxQuestions == 2

\* most lines recorded for one base question
MaxLines == 2

Done == <<"d", "o", "n", "e">>

\* what the user types at the question prompt
TypedLines ==
    { <<>>,
      <<" ", "D", "o", "n", "e">>,
      <<"(", "a", ")", "(", "A", ")">> }

\* what the user types at the image prompt
ImageInputs == { <<>>, <<"p", ".", "p", "n", "g", " ">> }

\* what a successful external process writes to stdout: a plain line, a
\* remote image, an image whose reference begins with http and is no URL, a
\* local image, a line that reads like a section header, a plain line
Stdout ==
    <<"a", "\n",
      "!", "[", "]", "(", "h", "t", "t", "p", ":", "/", "/", "x", ")", "\n",
      "!", "[", "]", "(", "h", "t", "t", "p", "d", ")", "\n",
      " ", "!", "[", "]", "(", " ", "p", ".", "p", "n", "g", ")", "\n",
      "-", "-", "-", " ", "Q", "u", "e", "s", "t", "i", "o", "n", " ", "1",
      " ", "-", "-", "-", "\n",
      "b", "\n">>

\* the external process of one call_llm invocation: it cannot be started, it
\* succeeds, or it exits with status 1 having written one undecodable byte
Procs ==
    { [found |-> FALSE, returncode |-> 0, stdout |-> <<>>],
      [found |-> TRUE, returncode |-> 0, stdout |-> Stdout],
      [found |-> TRUE, returncode |-> 1, stdout |-> <<" ", InvalidByte, "\n">>] }

\* the network and the filesystem save_to_docx can meet
Worlds ==
    [net : {"ok", "transport", "status"},
     fs : {"ok", "missing", "unreadable"}]

Init ==
    /\ pc = "start"
    /\ base_question = <<>>
    /\ option_count = -1
    /\ question_format = <<>>
    /\ MainIdle

\* init_app(use_local_model=True): shutil.which("ollama") decides
InitApp ==
    /\ pc = "start"
    /\ \E ollama \in BOOLEAN : pc' = IF ollama THEN "input" ELSE "aborted"
    /\ UNCHANGED <<pure_vars, main_vars>>

IsDone(l) == Lower(Strip(l)) = Done

\* line = input() in the inner loop, and what follows a break
ReadLine ==
    /\ pc = "input"
    /\ \E typed \in TypedLines :
          /\ line' = typed
          /\ IF Strip(typed) = <<>> /\ lines # <<>>
             THEN /\ pc' = "image"
                  /\ lines' = lines
             ELSE IF IsDone(typed)
             THEN /\ pc' = IF lines = <<>> THEN "generate" ELSE "image"
                  /\ lines' = lines
             ELSE /\ Len(lines) < MaxLines
                  /\ lines # <<>> \/ Len(base_questions) < MaxQuestions
                  /\ pc' = "input"
                  /\ lines' = Append(lines, typed)
    /\ UNCHANGED <<pure_vars, base_questions, results, calls, world, doc, saved>>

\* image_input = input().strip(), and the rest of the outer loop's body
ReadImage ==
    /\ pc = "image"
    /\ \E typed \in ImageInputs :
          LET image_input == Strip(typed)
              text == Join(lines, NL)
              base_question_text ==
                  IF image_input # <<>>
                  THEN text \o <<"\n", "\n">> \o ImageOpen \o image_input \o ImageClose
                  ELSE text
          IN  base_questions' = Append(base_questions, base_question_text)
    /\ pc' = IF IsDone(line) THEN "generate" ELSE "input"
    /\ lines' = <<>>
    /\ UNCHANGED <<pure_vars, line, results, calls, world, doc, saved>>

\* one round of the loop over enumerate(base_questions, 1), or the loop's end
Generate ==
    /\ pc = "generate"
    /\ LET i == Len(calls) + 1
       IN  IF i > Len(base_questions)
           THEN /\ pc' = "save"
                /\ UNCHANGED <<results, calls>>
           ELSE \E proc \in Procs :
                   LET prompt == build_prompt(base_questions[i], i)
                       out == call_llm(prompt, TRUE, proc)
                   IN  /\ calls' = Append(calls,
                              [item |-> i, proc |-> proc, raised |-> out.raised])
                       /\ IF out.raised
                          THEN /\ pc' = "aborted"
                               /\ results' = results
                          ELSE /\ pc' = "generate"
                               /\ results' = Append(results, out.value)
    /\ UNCHANGED <<pure_vars, lines, line, base_questions, world, doc, saved>>

\* save_to_docx(results, OUTPUT_DOCX)
Save ==
    /\ pc = "save"
    /\ \E w \in Worlds :
          /\ world' = w
          /\ doc' = save_to_docx(results, w)
    /\ saved' = TRUE
    /\ pc' = "done"
    /\ UNCHANGED <<pure_vars, lines, line, base_questions, results, calls>>

Next ==
    \/ InitApp
    \/ ReadLine
    \/ ReadImage
    \/ Generate
    \/ Save

Spec == Init /\ [][Next]_vars

-----------------------------------------------------------------------------
(* The option detector and the template, under SpecPure. *)

\* the letters A-E, lower case, that s holds as a parenthesised single letter
\* in either case
OptionLettersIn(s) ==
    { LowerChar(s[k + 1]) :
        k \in { h \in 1..(Len(s) - 2) :
                  s[h] = "(" /\ s[h + 1] \in OptionLetters /\ s[h + 2] = ")" } }

\* C1: detect_options returns the number of distinct option letters A-E that
\* occur in the text as a parenthesised single letter, the two cases of a letter
\* counting once, so the result is in 0..5.
C1_DetectCountsEachLetterOnce ==
    pc = "detected" =>
        /\ option_count = Cardinality(OptionLettersIn(base_question))
        /\ option_count \in 0..5

\* the lines of a template, each without its leading blanks
TemplateLines(t) ==
    LET ls == SplitNL(t)
    IN  [k \in 1..Len(ls) |->
            SubSeq(ls[k], Len(LeadingBlanks(ls[k])) + 1, Len(ls[k]))]

IsCorrectLine(l) == l = <<"@@option <Correct Option>">>

IsLetteredLine(l) == Len(l) = 4 /\ l[1] = "@option <Option" /\ l[2] = " " /\ l[4] = ">"

IsOptionLine(l) == IsCorrectLine(l) \/ IsLetteredLine(l)

\* the option lines of a template, in the template's order
OptionLines(t) == SelectSeq(TemplateLines(t), IsOptionLine)

\* C2: build_question_format(0) returns a template with exactly one
\* correct-option line "@@option ..." and no lettered "@option" line.
C2_ZeroOptionsKeepAnswerTag ==
    (pc = "format" /\ option_count = 0) =>
        /\ Len(SelectSeq(TemplateLines(question_format), IsCorrectLine)) = 1
        /\ Len(SelectSeq(TemplateLines(question_format), IsLetteredLine)) = 0

\* C3: for n >= 1 the template of build_question_format(n) holds exactly n
\* option lines: n-1 lettered lines, the i-th (from 0) with the letter A+i, and
\* then one correct-option line, the last option line.
C3_OptionLinesOfTemplate ==
    (pc = "format" /\ option_count >= 1) =>
        LET ol == OptionLines(question_format)
            n == option_count
        IN  /\ Len(ol) = n
            /\ \A i \in 0..(n - 2) :
                  ol[i + 1] = <<"@option <Option", " ", UpperLetters[i + 1], ">">>
            /\ ol[n] = <<"@@option <Correct Option>">>

\* C3's case: the template of five options has been built
C3_Witness ==
    /\ pc = "format"
    /\ option_count = 5
    /\ Len(OptionLines(question_format)) = 5

-----------------------------------------------------------------------------
(* The prompt, under Spec. *)

\* sub in s: s holds sub as one contiguous run
Contains(s, sub) ==
    \E k \in 0..(Len(s) - Len(sub)) : SubSeq(s, k + 1, k + Len(sub)) = sub

\* the base question of the latest round of the generation loop, and the
\* prompt the round built from it
LatestBaseQuestion == base_questions[calls[Len(calls)].item]

LatestPrompt == build_prompt(LatestBaseQuestion, calls[Len(calls)].item)

\* the index of the first line of ls, after index from, that is l without its
\* leading blanks; 0 when there is none
RECURSIVE LineIndex(_, _, _)
LineIndex(ls, l, from) ==
    IF from >= Len(ls) THEN 0
    ELSE IF ls[from + 1] = l THEN from + 1
    ELSE LineIndex(ls, l, from + 1)

\* the curriculum entries from k on are lines of ls, in order, after index from
RECURSIVE CurriculumInOrder(_, _, _)
CurriculumInOrder(ls, k, from) ==
    IF k > Len(CURRICULUM) THEN TRUE
    ELSE LET e == CURRICULUM[k]
             at == LineIndex(ls, <<"-", " ", e[1], " ", ">", " ", e[2], " ", ">", " ",
                                   e[3]>>, from)
         IN  at # 0 /\ CurriculumInOrder(ls, k + 1, at)

\* C9: the text build_prompt returns holds the base question unmodified as one
\* contiguous run and, for every entry of CURRICULUM, the line
\* "- Subject > Unit > Topic" (after the line's indentation), in the
\* curriculum's order.
C9_PromptHoldsQuestionAndCurriculum ==
    (pc \in {"generate", "aborted"} /\ calls # <<>>) =>
        \A p \in {LatestPrompt} :
            /\ Contains(p, LatestBaseQuestion)
            /\ \A ls \in {TemplateLines(p)} : CurriculumInOrder(ls, 1, 0)

\* C9's case: a prompt was built for a base question of two typed lines, the
\* first of them blank, and an image reference
C9_Witness ==
    /\ pc = "generate"
    /\ calls # <<>>
    /\ Len(LatestPrompt) > Len(LatestBaseQuestion)
    /\ StartsWith(LatestBaseQuestion, <<"\n", "(">>)
    /\ EndsWith(LatestBaseQuestion, <<"g", ")">>)

-----------------------------------------------------------------------------
(* The generation gateway and the run, under Spec. *)

\* the invocation failed: the process could not be started, it exited with a
\* status other than zero, or its output is no valid UTF-8
Failed(proc) ==
    \/ ~proc.found
    \/ proc.returncode # 0
    \/ \E k \in 1..Len(proc.stdout) : proc.stdout[k] = InvalidByte

\* the run of main is over
Ended == pc \in {"done", "aborted"}

\* C5: when the generator fails for one item of a run, the document is still
\* saved, and it holds every output collected for the other items.
C5_SavedDespiteFailedItem ==
    (Ended /\ \E k \in 1..Len(calls) : Failed(calls[k].proc)) =>
        /\ saved
        /\ \A k \in 1..Len(calls) :
              ~Failed(calls[k].proc) =>
                  \E b \in 1..Len(doc) : doc[b].text = SectionHeader(calls[k].item)

\* C6: with external generation enabled, call_llm never returns text normally
\* for a failed invocation: the outcome is an error.
C6_FailedCallRaises ==
    \A k \in 1..Len(calls) : Failed(calls[k].proc) => calls[k].raised

\* C10: a blank line typed before any question text is not recorded, so every
\* base question recorded holds a non-blank typed line.
C10_NoBlankBaseQuestion ==
    /\ lines # <<>> => Strip(lines[1]) # <<>>
    /\ \A k \in 1..Len(base_questions) : Strip(base_questions[k]) # <<>>

-----------------------------------------------------------------------------
(* The document, under Spec. *)

\* the lines of each output
OutputLines == [k \in 1..Len(results) |-> SplitLines(results[k])]

\* the index in doc of the header of section k, the outputs' lines being ls:
\* after the heading and the sections before
RECURSIVE HeaderIndex(_, _)
HeaderIndex(ls, k) ==
    IF k = 1 THEN 2 ELSE HeaderIndex(ls, k - 1) + 1 + Len(ls[k - 1])

\* the image reference cannot be resolved in world w: the fetch of a URL
\* fails, or the file of a path is missing or unreadable
ResolutionFails(ref, w) ==
    IF HasHttpScheme(ref) THEN w.net # "ok"
    ELSE ~(ref \in KnownPaths /\ w.fs = "ok")

FailurePrefixes ==
    { <<"[", "F", "a", "i", "l", "e", "d", " ", "t", "o", " ", "l", "o", "a", "d", " ",
        "i", "m", "a", "g", "e", ":", " ">>,
      <<"[", "I", "m", "a", "g", "e", " ", "n", "o", "t", " ", "f", "o", "u", "n", "d",
        ":", " ">> }

\* the block is a paragraph that tells of the failure to resolve ref
TellsFailure(b, ref) ==
    /\ b.kind = "paragraph"
    /\ \E pre \in FailurePrefixes : StartsWith(b.text, pre \o ref)

\* C4: an image line whose resolution fails becomes a paragraph telling of the
\* failure, save_to_docx completes, and every line of every output gives exactly
\* one block, in the original order.
C4_FailedImageIsolated ==
    pc = "done" =>
        \A ls \in {OutputLines} :
            /\ saved
            /\ Len(doc) = HeaderIndex(ls, Len(results) + 1) - 1
            /\ \A k \in 1..Len(results) : \A at \in {HeaderIndex(ls, k)} :
                      \A j \in 1..Len(ls[k]) :
                         LET l == ls[k][j]
                             b == doc[at + j]
                         IN  IF IsImageLine(l)
                             THEN IF ResolutionFails(ImgUrl(l), world)
                                  THEN TellsFailure(b, ImgUrl(l))
                                  ELSE b.kind = "picture"
                             ELSE b = [kind |-> "paragraph", text |-> l]

\* C4's case: a remote image of the first of two outputs could not be fetched,
\* and lines and an output follow it
C4_Witness ==
    /\ pc = "done"
    /\ Len(results) >= 2
    /\ world.net # "ok"
    /\ LET ls == OutputLines[1]
       IN  \E j \in 1..(Len(ls) - 1) :
              /\ IsImageLine(ls[j])
              /\ HasHttpScheme(ImgUrl(ls[j]))
              /\ TellsFailure(doc[2 + j], ImgUrl(ls[j]))
    /\ doc[Len(doc)].kind = "paragraph"

\* C7: a reference that does not begin with http:// or https:// is a local
\* path, and when the path does not exist the line's block is exactly the
\* paragraph "[Image not found: R]".
C7_LocalPathNotFound ==
    pc = "done" =>
        \A ls \in {OutputLines} :
            \A k \in 1..Len(results) : \A j \in 1..Len(ls[k]) :
               LET l == ls[k][j]
                   R == ImgUrl(l)
               IN  (IsImageLine(l) /\ ~HasHttpScheme(R)
                        /\ ~(R \in KnownPaths /\ world.fs # "missing")) =>
                       doc[HeaderIndex(ls, k) + j] =
                           [kind |-> "paragraph",
                            text |-> <<"[", "I", "m", "a", "g", "e", " ", "n", "o", "t",
                                       " ", "f", "o", "u", "n", "d", ":", " ">>
                                     \o R \o <<"]">>]

Digits == {"0", "1", "2", "3", "4", "5", "6", "7", "8", "9"}

\* the paragraph reads "--- Question k ---" for a number k
ReadsAsHeader(b) ==
    LET pre == <<"-", "-", "-", " ", "Q", "u", "e", "s", "t", "i", "o", "n", " ">>
        post == <<" ", "-", "-", "-">>
    IN  /\ b.kind = "paragraph"
        /\ Len(b.text) > Len(pre) + Len(post)
        /\ StartsWith(b.text, pre)
        /\ EndsWith(b.text, post)
        /\ \A h \in (Len(pre) + 1)..(Len(b.text) - Len(post)) : b.text[h] \in Digits

\* C8: the section headers read back from the document are "--- Question k ---"
\* for k = 1..len(outputs), once each and in increasing order, whatever the
\* outputs hold, and the k-th output came from the k-th base question.
C8_HeadersReadBack ==
    pc = "done" =>
        /\ SelectSeq(doc, ReadsAsHeader) =
              [k \in 1..Len(results) |->
                  [kind |-> "paragraph", text |-> SectionHeader(k)]]
        /\ \A k \in 1..Len(results) : calls[k].item = k

=============================================================================
